---------------------------- MODULE Spec2Model ----------------------------
(***************************************************************************)
(* Model of scripts/reviewer.py: the module-level start-up (dependency     *)
(* import/installation, configuration loading) followed by run(), the      *)
(* pull-request review pipeline.                                           *)
(*                                                                         *)
(* Text is a sequence of tokens.  A diff body and the truncation notice    *)
(* are sequences of single characters, so Len is Python's len(); the fixed *)
(* parts of the prompt and of the review are longer tokens.                *)
(* A Python value is a record [type, val].                                 *)
(***************************************************************************)
EXTENDS Integers, Sequences, FiniteSets, TLC

(***************************************************************************)
(* Bounds of the model.                                                    *)
(***************************************************************************)
MaxReviewLen == 4    \* longest review text (in tokens) the model service returns
MaxOverflow == 2     \* diffs up to MAX_DIFF_LEN + MaxOverflow characters

(***************************************************************************)
(* Python values.                                                          *)
(***************************************************************************)
PyNone == [type |-> "NoneType", val |-> <<>>]
PyStr(s) == [type |-> "str", val |-> s]
PyInt(digits) == [type |-> "int", val |-> digits]
PyBool(word) == [type |-> "bool", val |-> <<word>>]
PyList(items) == [type |-> "list", val |-> items]
\* a dict is a function from its keys (each a text) to Python values
PyDict(f) == [type |-> "dict", val |-> f]

\* text[i..j] occurs in text
Contains(text, marker) ==
    \E i \in 1..(Len(text) - Len(marker) + 1) :
        SubSeq(text, i, i + Len(marker) - 1) = marker

\* Truthy with `is None` tested instead of falsiness
TruthyUnlessNone(v) == v.type = "str"

\* Python truthiness of an optional string: None and "" are falsy
Truthy(v) == v.type = "str" /\ v.val # <<>>


(***************************************************************************)
(* JSON text: a sequence of lexical tokens [k, s]; s is the content of a   *)
(* string or number token.                                                 *)
(***************************************************************************)
Tok(k) == [k |-> k, s |-> <<>>]
JStr(s) == <<[k |-> "str", s |-> s]>>
JNum(digits) == <<[k |-> "num", s |-> digits]>>
JNull == <<Tok("null")>>
JTrue == <<Tok("true")>>
JFalse == <<Tok("false")>>

RECURSIVE JoinComma(_)
JoinComma(parts) ==
    IF parts = <<>> THEN <<>>
    ELSE IF Len(parts) = 1 THEN parts[1]
    ELSE parts[1] \o <<Tok(",")>> \o JoinComma(Tail(parts))

JMember(key, valueText) == JStr(key) \o <<Tok(":")>> \o valueText
JObject(members) == <<Tok("{")>> \o JoinComma(members) \o <<Tok("}")>>
JArray(elements) == <<Tok("[")>> \o JoinComma(elements) \o <<Tok("]")>>

ParseFail == [ok |-> FALSE, val |-> PyNone, rest |-> <<>>]
ParseOk(v, rest) == [ok |-> TRUE, val |-> v, rest |-> rest]

RECURSIVE ParseValue(_)
RECURSIVE ParseElements(_, _)
RECURSIVE ParseMembers(_, _)

\* elements of an array after "[", up to and including the closing "]"
ParseElements(toks, acc) ==
    LET r == ParseValue(toks) IN
    IF ~r.ok \/ r.rest = <<>> THEN ParseFail
    ELSE IF Head(r.rest).k = "," THEN ParseElements(Tail(r.rest), Append(acc, r.val))
    ELSE IF Head(r.rest).k = "]" THEN ParseOk(PyList(Append(acc, r.val)), Tail(r.rest))
    ELSE ParseFail

\* members of an object after "{", up to and including the closing "}";
\* a repeated key keeps its last value
ParseMembers(toks, acc) ==
    IF Len(toks) < 2 \/ toks[1].k # "str" \/ toks[2].k # ":" THEN ParseFail
    ELSE LET key == toks[1].s
             r == ParseValue(SubSeq(toks, 3, Len(toks)))
             acc2 == [x \in DOMAIN acc \cup {key} |-> IF x = key THEN r.val ELSE acc[x]]
         IN IF ~r.ok \/ r.rest = <<>> THEN ParseFail
            ELSE IF Head(r.rest).k = "," THEN ParseMembers(Tail(r.rest), acc2)
            ELSE IF Head(r.rest).k = "}" THEN ParseOk(PyDict(acc2), Tail(r.rest))
            ELSE ParseFail

ParseValue(toks) ==
    IF toks = <<>> THEN ParseFail
    ELSE LET t == Head(toks)
             rest == Tail(toks)
         IN CASE t.k = "null" -> ParseOk(PyNone, rest)
              [] t.k = "true" -> ParseOk(PyBool("true"), rest)
              [] t.k = "false" -> ParseOk(PyBool("false"), rest)
              [] t.k = "num" -> ParseOk(PyInt(t.s), rest)
              [] t.k = "str" -> ParseOk(PyStr(t.s), rest)
              [] t.k = "[" ->
                    IF rest # <<>> /\ Head(rest).k = "]"
                    THEN ParseOk(PyList(<<>>), Tail(rest))
                    ELSE ParseElements(rest, <<>>)
              [] t.k = "{" ->
                    IF rest # <<>> /\ Head(rest).k = "}"
                    THEN ParseOk(PyDict(<<>>), Tail(rest))
                    ELSE ParseMembers(rest, <<>>)
              [] OTHER -> ParseFail

\* json.loads: the whole text must be one JSON value, else JSONDecodeError
JsonLoads(text) ==
    LET r == ParseValue(text) IN
    IF r.ok /\ r.rest = <<>> THEN [ok |-> TRUE, val |-> r.val]
    ELSE [ok |-> FALSE, val |-> PyNone]

(***************************************************************************)
(* Python operations that can raise: the result is [raised, val], raised   *)
(* being the exception's name or "" when none was raised.                  *)
(***************************************************************************)
Returned(v) == [raised |-> "", val |-> v]
Raised(exc) == [raised |-> exc, val |-> PyNone]

\* key in container, key a text
PyIn(key, container) ==
    CASE container.type = "dict" -> Returned(key \in DOMAIN container.val)
      [] container.type = "list" ->
            Returned(\E i \in 1..Len(container.val) :
                        /\ container.val[i].type = "str"
                        /\ container.val[i].val = key)
      [] container.type = "str" -> Returned(Contains(container.val, key))
      [] OTHER -> [raised |-> "TypeError", val |-> FALSE]

\* obj.get(key)
PyGet(obj, key) ==
    IF obj.type = "dict"
    THEN Returned(IF key \in DOMAIN obj.val THEN obj.val[key] ELSE PyNone)
    ELSE Raised("AttributeError")

\* obj[key], key a text
PyGetItem(obj, key) ==
    IF obj.type = "dict"
    THEN IF key \in DOMAIN obj.val THEN Returned(obj.val[key]) ELSE Raised("KeyError")
    ELSE Raised("TypeError")

\* str(v) as an f-string embeds it
PyFormat(v) ==
    CASE v.type = "str" -> v.val
      [] v.type = "NoneType" -> <<"None">>
      [] v.type = "int" -> v.val
      [] v.type = "bool" -> IF v.val = <<"true">> THEN <<"True">> ELSE <<"False">>
      [] OTHER -> <<"<repr>">>

(***************************************************************************)
(* Fixed texts of the program.                                             *)
(***************************************************************************)
MAX_DIFF_LEN == 30000

\* "\n... (Diff truncated)", character by character
TRUNCATION_NOTICE ==
    <<"\n", ".", ".", ".", " ", "(", "D", "i", "f", "f", " ",
      "t", "r", "u", "n", "c", "a", "t", "e", "d", ")">>

\* the two verdict markers: an emoji followed by the emphasised word
REQUEST_CHANGES == <<":warning:", " **REQUEST CHANGES**">>
APPROVE == <<":white_check_mark:", " **APPROVE**">>

AI_ERROR == <<":warning:", " **AI Error:**">>
ATTRIBUTION == <<"\n\n", "_-- Reviewed by OS-Maintainer Bot _">>
STATUS_CONTEXT == <<"OS-Maintainer / AI-Reviewer">>
\* the filter with "closed" let through
ALLOWED_ACTIONS_AND_CLOSED == {<<"opened">>, <<"reopened">>, <<"synchronize">>, <<"closed">>}
ALLOWED_ACTIONS == {<<"opened">>, <<"reopened">>, <<"synchronize">>}

\* the ASCII whitespace str.strip() removes
Whitespace == {" ", "\n", "\t", "\r", "\f"}

\* str.strip(): leading and trailing whitespace removed
RECURSIVE LStrip(_)
LStrip(text) ==
    IF text # <<>> /\ Head(text) \in Whitespace THEN LStrip(Tail(text)) ELSE text

RECURSIVE RStrip(_)
RStrip(text) ==
    IF text # <<>> /\ text[Len(text)] \in Whitespace
    THEN RStrip(SubSeq(text, 1, Len(text) - 1))
    ELSE text

Strip(text) == RStrip(LStrip(text))

\* NothingToReview without the strip() test
NothingToReviewNoStrip(diff) == diff.type = "NoneType" \/ diff.val = <<>>

\* `not code_diff or not code_diff.strip()`
NothingToReview(diff) == diff.type = "NoneType" \/ diff.val = <<>> \/ Strip(diff.val) = <<>>

\* GetPrDiffResult with the status code ignored
GetPrDiffResultAnyStatus(response) == PyStr(response.text)

\* get_pr_diff's return value for a response of requests.get
GetPrDiffResult(response) ==
    IF response.status_code = 200 THEN PyStr(response.text) ELSE PyNone

\* TruncateDiff with >= in place of >
TruncateDiffAtLimit(diff_text) ==
    IF Len(diff_text) >= MAX_DIFF_LEN
    THEN SubSeq(diff_text, 1, MAX_DIFF_LEN) \o TRUNCATION_NOTICE
    ELSE diff_text

\* the diff as analyze_code_with_gemini embeds it in the prompt
TruncateDiff(diff_text) ==
    IF Len(diff_text) > MAX_DIFF_LEN
    THEN SubSeq(diff_text, 1, MAX_DIFF_LEN) \o TRUNCATION_NOTICE
    ELSE diff_text

PROMPT_HEAD == <<"\n    You are 'OS-Maintainer', an expert Senior Software Engineer.\n    Review PR from @">>
PROMPT_TITLE == <<". Title: ">>
PROMPT_CODE == <<". Code: [fence]diff ">>
PROMPT_INSTRUCTIONS ==
    <<"[fence]\n    \n    Instructions: 1. Check for **Security Leaks** and **Logic Bugs**. 2. Be helpful. 3. Verdict: End with either '">>
PROMPT_TAIL ==
    PROMPT_INSTRUCTIONS \o APPROVE \o <<"' or '">> \o REQUEST_CHANGES \o <<"'.\n    ">>

BuildPrompt(diff_text, pr_title, user) ==
    PROMPT_HEAD \o PyFormat(user) \o PROMPT_TITLE \o PyFormat(pr_title)
        \o PROMPT_CODE \o TruncateDiff(diff_text) \o PROMPT_TAIL

\* the review returned when model.generate_content raised an exception
\* whose str() is description
ErrorReview(description) ==
    AI_ERROR \o <<" Could not analyze code. The model failed to respond. (">>
        \o description \o <<")">>

\* the body post_comment sends
CommentBody(body) == body \o ATTRIBUTION

\* Verdict with the APPROVE marker tested first
VerdictApproveFirst(review) ==
    IF Contains(review, APPROVE)
    THEN [state |-> "success", description |-> "AI Review passed successfully."]
    ELSE IF Contains(review, REQUEST_CHANGES)
    THEN [state |-> "failure", description |-> "AI Review failed: Changes Requested."]
    ELSE [state |-> "error", description |-> "AI Review was inconclusive."]

\* the state and description run() passes to update_pr_status
Verdict(review) ==
    IF Contains(review, REQUEST_CHANGES)
    THEN [state |-> "failure", description |-> "AI Review failed: Changes Requested."]
    ELSE IF Contains(review, APPROVE)
    THEN [state |-> "success", description |-> "AI Review passed successfully."]
    ELSE [state |-> "error", description |-> "AI Review was inconclusive."]

(***************************************************************************)
(* Inputs: the environment of the process and what the remote services     *)
(* answer.                                                                 *)
(***************************************************************************)
KEY_ACTION == <<"action">>
KEY_PULL_REQUEST == <<"pull_request">>
PR_KEYS == <<"diff_url", "comments_url", "statuses_url", "title", "user">>

UserTexts == { JObject(<<JMember(<<"login">>, JStr(<<"octocat">>))>>), JObject(<<>>), JNull }

PrMemberText(key, userText) ==
    IF key = "user" THEN userText
    ELSE IF key = "title" THEN JStr(<<"Fix parser">>)
    ELSE JStr(<<"https://api.github.test/", key>>)

\* a pull_request object with every key of PR_KEYS but `omit`
PrText(omit, userText) ==
    LET Kept(key) == key # omit
        keys == SelectSeq(PR_KEYS, Kept)
    IN JObject([i \in 1..Len(keys) |-> JMember(<<keys[i]>>, PrMemberText(keys[i], userText))])

PrTexts ==
    { PrText(omit, userText) :
        omit \in {"", "diff_url", "comments_url", "statuses_url", "title", "user"},
        userText \in UserTexts }
    \cup { JObject(<<>>), JNull, JStr(<<"pr">>) }

ActionTexts == { JStr(<<a>>) : a \in {"opened", "reopened", "synchronize", "closed"} } \cup { JNull }

\* the members an event object may carry: an action or none, a pull_request or none
ActionMembers == { <<JMember(KEY_ACTION, a)>> : a \in ActionTexts } \cup { <<>> }
PrMembers == { <<JMember(KEY_PULL_REQUEST, p)>> : p \in PrTexts } \cup { <<>> }

ObjectPayloads == { JObject(a \o p) : a \in ActionMembers, p \in PrMembers }

OtherJsonPayloads ==
    { JNum(<<"5">>), JNull, JTrue, JFalse,
      JStr(<<"hello">>), JStr(<<"a ", "pull_request", " event">>),
      JArray(<<>>), JArray(<<JStr(KEY_PULL_REQUEST)>>) }

MalformedPayloads ==
    { <<Tok("{")>>, <<Tok("junk")>>, JNull \o JNull,
      <<Tok("{")>> \o JMember(KEY_ACTION, JStr(<<"opened">>)) \o <<Tok(","), Tok("}")>> }

\* values of GITHUB_PAYLOAD when it is set ("" included)
PayloadTexts == ObjectPayloads \cup OtherJsonPayloads \cup MalformedPayloads \cup { <<>> }

\* values of an optional environment variable holding a secret or a URL
OptionalTexts(text) == { PyNone, PyStr(<<>>), PyStr(text) }

\* bodies the diff endpoint may answer with: empty, blank, and real diffs
DiffBodies == { <<>>, <<" ">>, <<"\n", " ", "\t">>, <<"+", "x">>, <<" ", "-", "y", "\n">> }
DiffStatuses == { 200, 404, 500 }

\* diffs around the truncation limit; the character at position i varies with i
DiffChars == <<"+", "a", " ">>
LongDiff(length, shift) == [i \in 1..length |-> DiffChars[((i + shift) % 3) + 1]]
LimitLengths == { 1, 2 } \cup ((MAX_DIFF_LEN - 1)..(MAX_DIFF_LEN + MaxOverflow))
LimitDiffBodies == { LongDiff(length, shift) : length \in LimitLengths, shift \in 0..2 }

RECURSIVE TextsUpTo(_, _)
TextsUpTo(alphabet, n) ==
    IF n = 0 THEN { <<>> }
    ELSE LET shorter == TextsUpTo(alphabet, n - 1)
         IN shorter \cup { Append(t, c) : t \in shorter, c \in alphabet }

ReviewTokens == { ":warning:", " **REQUEST CHANGES**", ":white_check_mark:", " **APPROVE**", "LGTM" }
\* what response.text may be
ReviewTexts == TextsUpTo(ReviewTokens, MaxReviewLen)
\* what str(e) of an exception of the generation service may be
ErrorDescriptions ==
    { <<>>, <<"429 quota exceeded">>, <<"blocked: "         >> \o APPROVE,
      <<"echo: ">> \o PROMPT_TAIL }

\* outcomes of one requests.post: a response (whatever its status) or an exception
PostOutcomes == { "ok", "http_error", "fault" }

(***************************************************************************)
(* State.                                                                  *)
(***************************************************************************)
VARIABLES
    pc,            \* where the process is: "import", "config", "run", "extract",
                   \* "get_diff", "analyze", "post_comment", "update_status", "exit"
    importable,    \* whether requests and google.generativeai can be imported
    environ,       \* os.environ, the four variables the program reads
    payload,       \* the decoded event
    pr,            \* run()'s locals
    diff_url,
    comments_url,
    statuses_url,
    code_diff,
    review,
    calls,         \* the outbound calls made so far, in order
    exit_code,     \* the process's exit code once pc = "exit", -1 before
    raised         \* the uncaught exception that ended the process, else ""

vars == <<pc, importable, environ, payload, pr, diff_url, comments_url,
          statuses_url, code_diff, review, calls, exit_code, raised>>

Call(op, outcome, sent, response) ==
    [op |-> op, outcome |-> outcome, sent |-> sent, response |-> response]

NO_RESPONSE == [status_code |-> 0, text |-> <<>>]

Unset ==
    /\ payload = PyNone
    /\ pr = PyNone
    /\ diff_url = PyNone
    /\ comments_url = PyNone
    /\ statuses_url = PyNone
    /\ code_diff = PyNone
    /\ review = <<>>
    /\ calls = <<>>
    /\ exit_code = -1
    /\ raised = ""

Init ==
    /\ pc = "import"
    /\ importable \in BOOLEAN
    /\ \E p \in { PyNone } \cup { PyStr(t) : t \in PayloadTexts },
          token \in OptionalTexts(<<"ghp_token">>),
          key \in OptionalTexts(<<"AIza_key">>),
          url \in { PyNone, PyStr(<<"https://kestra.test/executions/1">>) } :
            environ = [GITHUB_PAYLOAD |-> p, GITHUB_TOKEN |-> token,
                       GOOGLE_API_KEY |-> key, KESTRA_EXECUTION_URL |-> url]
    /\ Unset

\* the process ends: sys.exit(code), an uncaught exception (code 1), or the
\* end of the script (code 0)
Exit(code, exception) ==
    /\ pc' = "exit"
    /\ exit_code' = code
    /\ raised' = exception

Locals == <<pr, diff_url, comments_url, statuses_url, code_diff, review>>

(***************************************************************************)
(* Start-up: lines 11-36.                                                  *)
(***************************************************************************)
ImportDependencies ==
    /\ pc = "import"
    /\ importable
    /\ pc' = "config"
    /\ UNCHANGED <<importable, environ, payload, Locals, calls, exit_code, raised>>

\* an import failed: pip installs requests, then google-generativeai;
\* check_call raises CalledProcessError when pip fails
InstallDependencies ==
    /\ pc = "import"
    /\ ~importable
    /\ \E installed \in 0..2 :
        /\ calls' = calls
              \o <<Call("pip install", IF installed >= 1 THEN "ok" ELSE "fault",
                        <<"requests">>, NO_RESPONSE)>>
              \o (IF installed >= 1
                  THEN <<Call("pip install", IF installed = 2 THEN "ok" ELSE "fault",
                              <<"google-generativeai">>, NO_RESPONSE)>>
                  ELSE <<>>)
        /\ IF installed = 2
           THEN pc' = "config" /\ UNCHANGED <<exit_code, raised>>
           ELSE Exit(1, "CalledProcessError")
    /\ UNCHANGED <<importable, environ, payload, Locals>>

LoadConfiguration ==
    /\ pc = "config"
    /\ LET payload_json == environ.GITHUB_PAYLOAD
           loaded == JsonLoads(payload_json.val)
       IN IF ~Truthy(payload_json)
          THEN Exit(1, "") /\ UNCHANGED payload
          ELSE IF ~loaded.ok
          THEN Exit(1, "") /\ UNCHANGED payload
          ELSE /\ payload' = loaded.val
               /\ IF ~Truthy(environ.GITHUB_TOKEN) \/ ~Truthy(environ.GOOGLE_API_KEY)
                  THEN Exit(1, "")
                  ELSE pc' = "run" /\ UNCHANGED <<exit_code, raised>>
    /\ UNCHANGED <<importable, environ, Locals, calls>>

(***************************************************************************)
(* run(): lines 82-117.                                                    *)
(***************************************************************************)
\* lines 86-88: the event filter
ValidateEvent ==
    /\ pc = "run"
    /\ LET has_pr == PyIn(KEY_PULL_REQUEST, payload)
           action == PyGet(payload, KEY_ACTION)
       IN IF has_pr.raised # "" THEN Exit(1, has_pr.raised)
          ELSE IF ~has_pr.val THEN Exit(0, "")
          ELSE IF action.raised # "" THEN Exit(1, action.raised)
          ELSE IF ~(action.val.type = "str" /\ action.val.val \in ALLOWED_ACTIONS)
          THEN Exit(0, "")
          ELSE pc' = "extract" /\ UNCHANGED <<exit_code, raised>>
    /\ UNCHANGED <<importable, environ, payload, Locals, calls>>

\* lines 91-94
ExtractDetails ==
    /\ pc = "extract"
    /\ LET the_pr == PyGetItem(payload, KEY_PULL_REQUEST)
           the_diff_url == PyGetItem(the_pr.val, <<"diff_url">>)
           the_comments_url == PyGetItem(the_pr.val, <<"comments_url">>)
           the_statuses_url == PyGetItem(the_pr.val, <<"statuses_url">>)
       IN IF the_pr.raised # ""
          THEN Exit(1, the_pr.raised)
               /\ UNCHANGED <<pr, diff_url, comments_url, statuses_url>>
          ELSE /\ pr' = the_pr.val
               /\ IF the_diff_url.raised # ""
                  THEN Exit(1, the_diff_url.raised)
                       /\ UNCHANGED <<diff_url, comments_url, statuses_url>>
                  ELSE /\ diff_url' = the_diff_url.val
                       /\ IF the_comments_url.raised # ""
                          THEN Exit(1, the_comments_url.raised)
                               /\ UNCHANGED <<comments_url, statuses_url>>
                          ELSE /\ comments_url' = the_comments_url.val
                               /\ IF the_statuses_url.raised # ""
                                  THEN Exit(1, the_statuses_url.raised)
                                       /\ UNCHANGED statuses_url
                                  ELSE /\ statuses_url' = the_statuses_url.val
                                       /\ pc' = "get_diff"
                                       /\ UNCHANGED <<exit_code, raised>>
    /\ UNCHANGED <<importable, environ, payload, code_diff, review, calls>>

\* get_pr_diff (lines 57-61) as run() calls it, and the check of line 98;
\* requests.get either raises or returns a response
GetDiff(bodies) ==
    /\ pc = "get_diff"
    /\ \/ /\ calls' = Append(calls, Call("GET diff", "fault", diff_url, NO_RESPONSE))
          /\ Exit(1, "RequestException")
          /\ UNCHANGED code_diff
       \/ \E status_code \in DiffStatuses, text \in bodies :
            LET response == [status_code |-> status_code, text |-> text]
                result == GetPrDiffResult(response)
            IN /\ calls' = Append(calls,
                      Call("GET diff", IF status_code = 200 THEN "ok" ELSE "http_error",
                           diff_url, response))
               /\ code_diff' = result
               /\ IF NothingToReview(result)
                  THEN Exit(0, "")
                  ELSE pc' = "analyze" /\ UNCHANGED <<exit_code, raised>>
    /\ UNCHANGED <<importable, environ, payload, pr, diff_url, comments_url,
                   statuses_url, review>>

\* line 102 and analyze_code_with_gemini (lines 63-79); model.generate_content
\* either returns a response whose text is read, or raises an Exception whose
\* str() is put in the review
AnalyzeCode(texts, descriptions) ==
    /\ pc = "analyze"
    /\ LET title == PyGetItem(pr, <<"title">>)
           user == PyGetItem(pr, <<"user">>)
           login == PyGetItem(user.val, <<"login">>)
           prompt == BuildPrompt(code_diff.val, title.val, login.val)
       IN IF title.raised # "" THEN Exit(1, title.raised) /\ UNCHANGED <<review, calls>>
          ELSE IF user.raised # "" THEN Exit(1, user.raised) /\ UNCHANGED <<review, calls>>
          ELSE IF login.raised # "" THEN Exit(1, login.raised) /\ UNCHANGED <<review, calls>>
          ELSE /\ \/ \E text \in texts :
                        /\ calls' = Append(calls,
                              Call("generate_content", "ok", prompt,
                                   [status_code |-> 0, text |-> text]))
                        /\ review' = text
                  \/ \E description \in descriptions :
                        /\ calls' = Append(calls,
                              Call("generate_content", "fault", prompt,
                                   [status_code |-> 0, text |-> description]))
                        /\ review' = ErrorReview(description)
               /\ pc' = "post_comment"
               /\ UNCHANGED <<exit_code, raised>>
    /\ UNCHANGED <<importable, environ, payload, pr, diff_url, comments_url,
                   statuses_url, code_diff>>

\* line 106 and post_comment (lines 40-44): the response is not inspected,
\* an exception of requests.post is not caught
PostComment ==
    /\ pc = "post_comment"
    /\ \E outcome \in PostOutcomes :
        /\ calls' = Append(calls,
              Call("POST comment", outcome,
                   [url |-> comments_url, body |-> CommentBody(review)], NO_RESPONSE))
        /\ IF outcome = "fault"
           THEN Exit(1, "RequestException")
           ELSE pc' = "update_status" /\ UNCHANGED <<exit_code, raised>>
    /\ UNCHANGED <<importable, environ, payload, Locals>>

\* lines 109-117 and update_pr_status (lines 46-55); run() returns after it
UpdateStatus ==
    /\ pc = "update_status"
    /\ \E outcome \in PostOutcomes :
        /\ calls' = Append(calls,
              Call("POST status", outcome,
                   [url |-> statuses_url,
                    state |-> Verdict(review).state,
                    target_url |-> environ.KESTRA_EXECUTION_URL,
                    description |-> Verdict(review).description,
                    context |-> STATUS_CONTEXT],
                   NO_RESPONSE))
        /\ IF outcome = "fault" THEN Exit(1, "RequestException") ELSE Exit(0, "")
    /\ UNCHANGED <<importable, environ, payload, Locals>>

Next ==
    \/ ImportDependencies
    \/ InstallDependencies
    \/ LoadConfiguration
    \/ ValidateEvent
    \/ ExtractDetails
    \/ GetDiff(DiffBodies)
    \/ AnalyzeCode(ReviewTexts, ErrorDescriptions)
    \/ PostComment
    \/ UpdateStatus

Spec == Init /\ [][Next]_vars

(***************************************************************************)
(* The same program, fed a well-formed "opened" event and diffs whose      *)
(* length is around MAX_DIFF_LEN.                                          *)
(***************************************************************************)
OpenedEvent ==
    JObject(<<JMember(KEY_ACTION, JStr(<<"opened">>)),
              JMember(KEY_PULL_REQUEST,
                      PrText("", JObject(<<JMember(<<"login">>, JStr(<<"octocat">>))>>)))>>)

InitLimit ==
    /\ pc = "import"
    /\ importable \in BOOLEAN
    /\ environ = [GITHUB_PAYLOAD |-> PyStr(OpenedEvent),
                  GITHUB_TOKEN |-> PyStr(<<"ghp_token">>),
                  GOOGLE_API_KEY |-> PyStr(<<"AIza_key">>),
                  KESTRA_EXECUTION_URL |-> PyNone]
    /\ Unset

NextLimit ==
    \/ ImportDependencies
    \/ InstallDependencies
    \/ LoadConfiguration
    \/ ValidateEvent
    \/ ExtractDetails
    \/ GetDiff(LimitDiffBodies)
    \/ AnalyzeCode({ APPROVE, <<"LGTM">> }, { <<"429 quota exceeded">> })
    \/ PostComment
    \/ UpdateStatus

SpecLimit == InitLimit /\ [][NextLimit]_vars

(***************************************************************************)
(* Properties.                                                             *)
(***************************************************************************)
PIPELINE_OPS == { "GET diff", "generate_content", "POST comment", "POST status" }

CallsOf(op) == { i \in DOMAIN calls : calls[i].op = op }
NoCallOf(ops) == \A i \in DOMAIN calls : calls[i].op \notin ops

\* the decoded event is an object that carries a pull_request key
HasPullRequestKey == payload.type = "dict" /\ <<"pull_request">> \in DOMAIN payload.val

\* the decoded event is an object whose action is one of the three reviewed
HasReviewedAction ==
    /\ payload.type = "dict"
    /\ <<"action">> \in DOMAIN payload.val
    /\ payload.val[<<"action">>].type = "str"
    /\ \/ payload.val[<<"action">>].val = <<"opened">>
       \/ payload.val[<<"action">>].val = <<"reopened">>
       \/ payload.val[<<"action">>].val = <<"synchronize">>

\* C1: a run whose decoded event has no pull_request key, or whose action is
\* not opened, reopened or synchronize, makes no diff GET, no
\* generation-service call, no comment POST and no status POST.
C1_FilteredEventMakesNoCall ==
    (pc \notin {"import", "config"} /\ (~HasPullRequestKey \/ ~HasReviewedAction))
        => NoCallOf(PIPELINE_OPS)

\* a "closed" pull_request event has been filtered: the run ended with code 0
C1_Witness ==
    /\ pc = "exit"
    /\ exit_code = 0
    /\ HasPullRequestKey
    /\ <<"action">> \in DOMAIN payload.val
    /\ payload.val[<<"action">>].val = <<"closed">>
    /\ NoCallOf(PIPELINE_OPS)

\* the diff GET was answered with a status code other than 200
DiffGetRefused ==
    \E i \in CallsOf("GET diff") :
        calls[i].outcome # "fault" /\ calls[i].response.status_code # 200

\* C2: when the diff GET returns a status code other than 200, get_pr_diff
\* yields None and the run ends with no generation-service call, no comment
\* POST and no status POST.
C2_Non200DiffEndsRun ==
    DiffGetRefused =>
        /\ code_diff.type = "NoneType"
        /\ pc = "exit"
        /\ NoCallOf({ "generate_content", "POST comment", "POST status" })

\* a 404 answer with a non-blank body ended the run
C2_Witness ==
    /\ pc = "exit"
    /\ \E i \in CallsOf("GET diff") :
          /\ calls[i].response.status_code = 404
          /\ calls[i].response.text = <<"+", "x">>
    /\ exit_code = 0
    /\ NoCallOf({ "generate_content", "POST comment", "POST status" })

\* the generation service raised during this run
GenerationFailed == \E i \in CallsOf("generate_content") : calls[i].outcome = "fault"

\* the text carries the two tokens of the marker next to each other
HasRequestChangesMarker(text) ==
    \E k \in 1..(Len(text) - 1) :
        text[k] = ":warning:" /\ text[k + 1] = " **REQUEST CHANGES**"
HasApproveMarker(text) ==
    \E k \in 1..(Len(text) - 1) :
        text[k] = ":white_check_mark:" /\ text[k + 1] = " **APPROVE**"
HasAiErrorMarker(text) ==
    \E k \in 1..(Len(text) - 1) :
        text[k] = ":warning:" /\ text[k + 1] = " **AI Error:**"

\* C3: whenever model.generate_content raises, whatever the exception's text:
\* the exception does not end the run, the review is the synthesized AI-Error
\* text embedding the description, the comment posted carries the AI Error
\* marker, and the status POST carries state "error", never "success" or
\* "failure".
C3_GenerationFailureReportsError ==
    \A i \in CallsOf("generate_content") :
        calls[i].outcome = "fault" =>
            /\ HasAiErrorMarker(review)
            /\ Contains(review, calls[i].response.text)
            /\ (pc = "exit" => Len(calls) > i)
            /\ \A j \in CallsOf("POST comment") : HasAiErrorMarker(calls[j].sent.body)
            /\ \A j \in CallsOf("POST status") : calls[j].sent.state = "error"

\* C4: the state and description of the status POST are a function of the
\* review text alone: REQUEST CHANGES marker present (with or without the
\* APPROVE marker) gives "failure"; else APPROVE marker present gives
\* "success"; else "error"; each with its fixed description.
C4_StatusFollowsReviewText ==
    \A j \in CallsOf("POST status") :
        LET sent == calls[j].sent IN
        /\ HasRequestChangesMarker(review) =>
              /\ sent.state = "failure"
              /\ sent.description = "AI Review failed: Changes Requested."
        /\ (~HasRequestChangesMarker(review) /\ HasApproveMarker(review)) =>
              /\ sent.state = "success"
              /\ sent.description = "AI Review passed successfully."
        /\ (~HasRequestChangesMarker(review) /\ ~HasApproveMarker(review)) =>
              /\ sent.state = "error"
              /\ sent.description = "AI Review was inconclusive."

\* a status was posted for a review carrying both markers, APPROVE first
C4_Witness ==
    /\ review = APPROVE \o REQUEST_CHANGES
    /\ \E j \in CallsOf("POST status") : calls[j].sent.state = "failure"

\* C5: every run that attempts the comment POST also attempts the status
\* POST, whatever the comment POST's outcome (error response or transport
\* fault).
C5_CommentThenStatusAlways ==
    (pc = "exit" /\ CallsOf("POST comment") # {}) => CallsOf("POST status") # {}

\* a configuration error: the payload is missing or empty or not JSON, or a
\* credential is missing or empty
ConfigurationError ==
    \/ environ.GITHUB_PAYLOAD.type = "NoneType"
    \/ environ.GITHUB_PAYLOAD.val = <<>>
    \/ ~JsonLoads(environ.GITHUB_PAYLOAD.val).ok
    \/ environ.GITHUB_TOKEN.type = "NoneType"
    \/ environ.GITHUB_TOKEN.val = <<>>
    \/ environ.GOOGLE_API_KEY.type = "NoneType"
    \/ environ.GOOGLE_API_KEY.val = <<>>

\* C6 as stated: on a configuration error the process exits (sys.exit of the
\* configuration section) with a nonzero code and no outbound call of any
\* kind has happened by then.
C6_ConfigErrorExitsBeforeAnyCall ==
    (ConfigurationError /\ pc = "exit" /\ raised = "") => (exit_code # 0 /\ calls = <<>>)

\* C6 as amended: on a configuration error the process exits with a nonzero
\* code and the only outbound calls made by then are the start-up's pip
\* installs of missing dependencies; no diff GET, generation-service call,
\* comment POST or status POST has happened.
C6_ConfigErrorExitsBeforePipeline ==
    /\ (ConfigurationError /\ pc = "exit") =>
          (exit_code # 0 /\ \A i \in DOMAIN calls : calls[i].op = "pip install")
    /\ ConfigurationError => pc \in {"import", "config", "exit"}

\* the token is the empty string, the dependencies had to be installed, and
\* the process has exited with code 1 after the two pip installs
C6_Witness ==
    /\ pc = "exit"
    /\ exit_code = 1
    /\ raised = ""
    /\ environ.GITHUB_TOKEN = PyStr(<<>>)
    /\ environ.GITHUB_PAYLOAD.type = "str"
    /\ JsonLoads(environ.GITHUB_PAYLOAD.val).ok
    /\ Len(calls) = 2

\* C7: whenever the payload is present and parses and both credentials are
\* present, the process exits with code 0 (no transport fault having
\* occurred), for every decoded payload shape.
C7_ValidConfigExitsZero ==
    (~ConfigurationError /\ pc = "exit" /\ \A i \in DOMAIN calls : calls[i].outcome # "fault")
        => exit_code = 0

\* the diff embedded in a prompt built for the pull request of OpenedEvent:
\* what lies between the five leading tokens (head, login, title label,
\* title, code label) and the closing instructions
EmbeddedDiff(prompt) == SubSeq(prompt, 6, Len(prompt) - Len(PROMPT_TAIL))

\* C8: for a diff of length L passed to analyze_code_with_gemini, the diff
\* embedded in the prompt is the diff unmodified when L <= 30000 (L = 30000
\* included), and exactly its first 30000 characters followed by the
\* "(Diff truncated)" notice when L > 30000.
C8_PromptEmbedsTruncatedDiff ==
    \A i \in CallsOf("generate_content") :
        LET diff == code_diff.val
            prompt == calls[i].sent
            embedded == EmbeddedDiff(prompt)
        IN /\ SubSeq(prompt, 1, 5) =
                 <<PROMPT_HEAD[1], "octocat", ". Title: ", "Fix parser", PROMPT_CODE[1]>>
           /\ SubSeq(prompt, Len(prompt) - Len(PROMPT_TAIL) + 1, Len(prompt)) = PROMPT_TAIL
           /\ Len(diff) <= 30000 => embedded = diff
           /\ Len(diff) > 30000 =>
                 /\ Len(embedded) = 30000 + 21
                 /\ SubSeq(embedded, 1, 30000) = SubSeq(diff, 1, 30000)
                 /\ SubSeq(embedded, 30001, 30021) =
                       <<"\n", ".", ".", ".", " ", "(", "D", "i", "f", "f", " ",
                         "t", "r", "u", "n", "c", "a", "t", "e", "d", ")">>
                 /\ prompt[5 + 30000] = diff[30000]
                 /\ prompt[5 + 30001] = "\n"

\* a diff of 30001 characters has been analysed
C8_Witness ==
    /\ CallsOf("generate_content") # {}
    /\ Len(code_diff.val) = 30001

PIPELINE_ORDER == <<"GET diff", "generate_content", "POST comment", "POST status">>

\* the diff GET was answered 200 with a body holding a non-whitespace character
DiffGetGaveText ==
    \E i \in CallsOf("GET diff") :
        /\ calls[i].outcome # "fault"
        /\ calls[i].response.status_code = 200
        /\ \E k \in DOMAIN calls[i].response.text :
              calls[i].response.text[k] \notin {" ", "\n", "\t", "\r", "\f"}

\* C9: the pipeline's calls occur only in the order diff GET, generation
\* call, comment POST, status POST, each at most once (so no status POST
\* without a comment POST before it, no comment POST without a generation
\* call before it); and a run with an accepted event, a 200 non-blank diff
\* and no transport fault issues exactly one of each.
C9_ForwardOrderExactlyOnce ==
    LET IsPipelineCall(c) == c.op \in PIPELINE_OPS
        made == SelectSeq(calls, IsPipelineCall)
    IN /\ Len(made) <= 4
       /\ \A k \in 1..Len(made) : made[k].op = PIPELINE_ORDER[k]
       /\ ( /\ pc = "exit"
            /\ HasPullRequestKey
            /\ HasReviewedAction
            /\ DiffGetGaveText
            /\ \A i \in DOMAIN calls :
                  calls[i].op \in {"GET diff", "POST comment", "POST status"}
                      => calls[i].outcome # "fault" )
          => Len(made) = 4

\* the diff GET was answered 200 with an empty or whitespace-only body
DiffGetGaveBlank ==
    \E i \in CallsOf("GET diff") :
        /\ calls[i].outcome # "fault"
        /\ calls[i].response.status_code = 200
        /\ \A k \in DOMAIN calls[i].response.text :
              calls[i].response.text[k] \in {" ", "\n", "\t", "\r", "\f"}

\* C10: when the diff GET returns 200 with an empty or whitespace-only body
\* the run ends there: no generation-service call, no comment POST and no
\* status POST, so no status check is set.
C10_BlankDiffEndsRun ==
    DiffGetGaveBlank =>
        /\ pc = "exit"
        /\ NoCallOf({ "generate_content", "POST comment", "POST status" })

\* a 200 answer made of a newline, a space and a tab ended the run with code 0
C10_Witness ==
    /\ pc = "exit"
    /\ exit_code = 0
    /\ \E i \in CallsOf("GET diff") :
          /\ calls[i].response.status_code = 200
          /\ calls[i].response.text = <<"\n", " ", "\t">>
    /\ NoCallOf({ "generate_content", "POST comment", "POST status" })

=============================================================================
